---- MODULE Spec2Model ----
(***************************************************************************)
(* Reminder engine of tg-iso-bot-render (src/main.py): the users, intakes  *)
(* and pending_jobs tables, the periodic scheduler_tick coroutine and the  *)
(* callback handlers cb_taken, cb_skip and cb_snooze.  The tick and        *)
(* cb_snooze are split into steps at the awaits where a handler or the     *)
(* clock can change what they go on to read, as on the asyncio loop.       *)
(***************************************************************************)
EXTENDS Integers, Sequences, FiniteSets, TLC

\* ---------------------------------------------------------------- bounds
MaxIntakes == 2        \* cap on the intakes SERIAL id
MaxJobs == 2           \* cap on the pending_jobs SERIAL id
MaxClockSteps == 4     \* number of times the clock advances
ClockStep == 30        \* seconds the clock advances in one step
MaxTaken == 5          \* taken rows of the journal tables
MaxSkip == 3           \* skip rows of the journal tables

\* ------------------------------------------------------ program constants
BatchLimit == 100      \* LIMIT 100 of the pending_jobs query
TzOffset == 3600       \* UTC offset of DEFAULT_TZ "Europe/Berlin" (CET), seconds
WindowSeconds == 30    \* now.second < 30
MaxHour == 23
MaxMinute == 59
JournalDays == 7        \* INTERVAL '7 days' of the journal query

Users == {1, 2}
Slots == {1, 2}
NULL == 0 - 1          \* SQL NULL / Python None for ids and instants
DaySeconds == 24 * 3600

\* Chat texts are sequences of one-character strings.
Digits == <<"0", "1", "2", "3", "4", "5", "6", "7", "8", "9">>
IsDigit(c) == \E d \in 1..10 : Digits[d] = c
DigitVal(c) == (CHOOSE d \in 1..10 : Digits[d] = c) - 1

Default1 == <<"0", "9", ":", "0", "0">>      \* remind1 DEFAULT '09:00'
Default2 == <<"2", "1", ":", "0", "0">>      \* remind2 DEFAULT '21:00'

\* Texts a user sends in mode set_time<which>: <<tg_id, which, text>> with
\* the texts 23:59, 0:0, 0:1, " 0:1" and the invalid 24:00, 12:60 and 7.
SetTimeInputs ==
  { <<1, 1, <<"2", "3", ":", "5", "9">> >>,
    <<1, 1, <<"0", ":", "0">> >>,
    <<1, 1, <<"0", ":", "1">> >>,
    <<1, 1, <<" ", "0", ":", "1">> >>,
    <<2, 2, <<"0", ":", "0">> >>,
    <<1, 2, <<"2", "4", ":", "0", "0">> >>,
    <<2, 1, <<"1", "2", ":", "6", "0">> >>,
    <<2, 2, <<"7">> >> }

\* Calls of cb_snooze the model makes: <<tg_id, intake id, minutes>> as
\* carried by the callback data a:snooze:<id>:<minutes>.
SnoozeInputs == { <<1, 1, 1>>, <<2, 1, 1>> }

\* Calls of cb_taken and cb_skip the scheduling runs make: <<tg_id, intake id>>.
AckInputs == { <<1, 1>>, <<2, 1>> }

\* The clock starts at 23:59:00 local time of day 0.
StartTime == (MaxHour * 3600 + MaxMinute * 60) - TzOffset
MaxTime == StartTime + MaxClockSteps * ClockStep

\* ------------------------------------------------------------- parse_hhmm
\* str.strip(): the text between the first and the last non-blank.
NonBlank(s) == {k \in 1..Len(s) : s[k] # " "}

Strip(s) ==
  IF NonBlank(s) = {} THEN <<>>
  ELSE SubSeq(s, CHOOSE k \in NonBlank(s) : \A j \in NonBlank(s) : k <= j,
                 CHOOSE k \in NonBlank(s) : \A j \in NonBlank(s) : j <= k)

ColonPositions(s) == {k \in 1..Len(s) : s[k] = ":"}

\* int(): optional sign, then one or more digits (surrounding blanks allowed).
Unsigned(t) ==
  IF Len(t) > 0 /\ (Head(t) = "-" \/ Head(t) = "+") THEN Tail(t) ELSE t

IsInt(part) ==
  LET t == Unsigned(Strip(part))
  IN  Len(t) > 0 /\ \A k \in 1..Len(t) : IsDigit(t[k])

DigitsVal(t) ==
  LET val[k \in 0..Len(t)] ==
        IF k = 0 THEN 0 ELSE 10 * val[k - 1] + DigitVal(t[k])
  IN  val[Len(t)]

IntVal(part) ==
  LET s == Strip(part)
      v == DigitsVal(Unsigned(s))
  IN  IF Len(s) > 0 /\ Head(s) = "-" THEN 0 - v ELSE v

TwoDigits(n) == <<Digits[(n \div 10) + 1], Digits[(n % 10) + 1]>>

FormatHHMM(h, m) == TwoDigits(h) \o <<":">> \o TwoDigits(m)

BadTime == [ok |-> FALSE, h |-> 0, m |-> 0, text |-> <<>>]

\* parse_hhmm: ok = FALSE stands for the ValueError.
parse_hhmm(raw) ==
  LET s == Strip(raw)
      cs == ColonPositions(s)
  IN  IF Cardinality(cs) # 1 THEN BadTime
      ELSE LET c == CHOOSE k \in cs : TRUE
               hh == SubSeq(s, 1, c - 1)
               mm == SubSeq(s, c + 1, Len(s))
           IN  IF ~(IsInt(hh) /\ IsInt(mm)) THEN BadTime
               ELSE LET h == IntVal(hh)
                        m == IntVal(mm)
                    IN  IF ~(0 <= h /\ h <= MaxHour /\ 0 <= m /\ m <= MaxMinute)
                        THEN BadTime
                        ELSE [ok |-> TRUE, h |-> h, m |-> m,
                              text |-> FormatHHMM(h, m)]

\* Late is the stored form of 23:59.
Late == <<"2", "3", ":", "5", "9">>

\* Every text the model hands to parse_hhmm: the inputs, the column
\* defaults and the formatted texts the parser returns.  ParseTable holds
\* parse_hhmm of each, computed once.
InputTexts == {c[3] : c \in SetTimeInputs} \cup {Default1, Default2, Late, <<>>}

KnownTexts == InputTexts \cup {parse_hhmm(t).text : t \in InputTexts}

ParseTable == [t \in KnownTexts |-> parse_hhmm(t)]

Parsed(text) == ParseTable[text]

\* ------------------------------------------------------------------ clock
LocalSecs(t) == t + TzOffset
LocalDay(t) == LocalSecs(t) \div DaySeconds
LocalHour(t) == (LocalSecs(t) % DaySeconds) \div 3600
LocalMinute(t) == (LocalSecs(t) % 3600) \div 60
LocalSecond(t) == LocalSecs(t) % 60

\* today_slot_dt read at clock value t: today's date with hour h, minute m.
today_slot_dt(t, hhmm) ==
  LET p == Parsed(hhmm)
  IN  LocalDay(t) * DaySeconds + p.h * 3600 + p.m * 60 - TzOffset

DayStart(planned) == LocalDay(planned) * DaySeconds - TzOffset

\* ------------------------------------------------------------------ state
VARIABLES
  now,           \* wall clock, seconds (UTC instants)
  users,         \* users table: tg_id -> row, or NoUser
  intakes,       \* intakes table: sequence indexed by the SERIAL id
  pending_jobs,  \* pending_jobs table: set of rows
  job_seq,       \* last value of the pending_jobs id sequence
  tick,          \* the scheduler_tick coroutine: position and locals
  snz,           \* the cb_snooze coroutine in flight: position and locals
  job_sends,     \* per job id: send_intake_reminder calls of the deferred pass
  plan_sends,    \* per intake id: send_intake_reminder calls of the slot pass
  journal        \* the figures of the last journal message cb_journal sent

vars == <<now, users, intakes, pending_jobs, job_seq, tick, snz, job_sends,
          plan_sends, journal>>

NoUser == [present |-> FALSE, reminders_enabled |-> FALSE,
           remind1 |-> <<>>, remind2 |-> <<>>]

NewUser == [present |-> TRUE, reminders_enabled |-> TRUE,
            remind1 |-> Default1, remind2 |-> Default2]

TickIdle == [pc |-> "idle", users |-> <<>>, pending |-> <<>>, ji |-> 0,
             ui |-> 0, now |-> NULL, slot |-> 0, intake_id |-> NULL,
             awaited |-> FALSE, raised |-> FALSE]

SnzIdle == [pc |-> "idle", tg_id |-> NULL, intake_id |-> NULL, minutes |-> 0,
            run_at |-> NULL]

Terminal == {"taken", "skip"}

\* adherence is the exact ratio num / den in percent.
NoJournal == [tg_id |-> NULL, taken |-> 0, skip |-> 0,
              adherence |-> [num |-> 0, den |-> 1]]

IntakeIds == 1..Len(intakes)

\* Ids a callback can carry: every id the table can hold.
CallbackIds == 1..MaxIntakes

Init ==
  /\ now = StartTime
  /\ users = [u \in Users |-> NoUser]
  /\ intakes = <<>>
  /\ pending_jobs = {}
  /\ job_seq = 0
  /\ tick = TickIdle
  /\ snz = SnzIdle
  /\ job_sends = <<>>
  /\ plan_sends = <<>>
  /\ journal = NoJournal

\* ------------------------------------------------------------ environment
ClockAdvance ==
  /\ now + ClockStep <= MaxTime
  /\ now' = now + ClockStep
  /\ UNCHANGED <<users, intakes, pending_jobs, job_seq, tick, snz, job_sends, plan_sends,
                 journal>>

\* ensure_user: INSERT ... ON CONFLICT DO NOTHING.
ensure_user(tbl, u) ==
  IF tbl[u].present THEN tbl ELSE [tbl EXCEPT ![u] = NewUser]

\* cmd_start
cmd_start(u) ==
  /\ users' = ensure_user(users, u)
  /\ UNCHANGED <<now, intakes, pending_jobs, job_seq, tick, snz, job_sends, plan_sends,
                 journal>>

\* toggle_reminders: UPDATE ... SET reminders_enabled = NOT reminders_enabled.
toggle_reminders(tbl, u) ==
  IF tbl[u].present
  THEN [tbl EXCEPT ![u].reminders_enabled = ~tbl[u].reminders_enabled]
  ELSE tbl

\* cb_toggle: toggle_reminders, then get_user (which calls ensure_user).
cb_toggle(u) ==
  /\ users' = ensure_user(toggle_reminders(users, u), u)
  /\ UNCHANGED <<now, intakes, pending_jobs, job_seq, tick, snz, job_sends, plan_sends,
                 journal>>

\* An UPDATE that stores the text as it was typed.
set_time_unparsed(tbl, u, which, text) ==
  IF ~tbl[u].present THEN tbl
  ELSE IF which = 1 THEN [tbl EXCEPT ![u].remind1 = text]
  ELSE [tbl EXCEPT ![u].remind2 = text]

\* set_user_time: parse, then UPDATE users SET remind<which>.
set_user_time_row(tbl, u, which, text) ==
  LET p == Parsed(text)
  IN  IF ~p.ok \/ ~tbl[u].present THEN tbl
      ELSE IF which = 1 THEN [tbl EXCEPT ![u].remind1 = p.text]
      ELSE [tbl EXCEPT ![u].remind2 = p.text]

set_user_time(u, which, text) ==
  /\ users' = set_user_time_row(users, u, which, text)
  /\ UNCHANGED <<now, intakes, pending_jobs, job_seq, tick, snz, job_sends, plan_sends,
                 journal>>

\* on_text in mode set_time<which>: parse_hhmm of the message text, then
\* set_user_time with the parsed text; a ValueError is answered and nothing
\* is written.
on_text(u, which, text) ==
  IF Parsed(text).ok
  THEN set_user_time(u, which, Parsed(text).text)
  ELSE UNCHANGED <<now, users, intakes, pending_jobs, job_seq, tick, snz,
                   job_sends, plan_sends, journal>>

\* --------------------------------------------------------- lifecycle API
\* An UPDATE that sets the status and leaves snoozed_until as it is.
MarkKeepSnooze(tbl, u, i, st) ==
  IF i \in 1..Len(tbl) /\ tbl[i].tg_id = u
  THEN [tbl EXCEPT ![i].status = st]
  ELSE tbl

\* UPDATE intakes SET status=<st>, snoozed_until=NULL WHERE id=$1 AND tg_id=$2
MarkIntake(tbl, u, i, st) ==
  IF i \in 1..Len(tbl) /\ tbl[i].tg_id = u
  THEN [tbl EXCEPT ![i].status = st, ![i].snoozed_until = NULL]
  ELSE tbl

\* The text cb_taken sends to the chat after the UPDATE, whatever the UPDATE
\* matched: "Отметил: принял".  cb_skip likewise sends "Отметил: пропуск".
cb_taken_reply(tbl, u, i) == "MarkedTaken"

cb_skip_reply(tbl, u, i) == "MarkedSkip"

cb_taken(u, i) ==
  /\ intakes' = MarkIntake(intakes, u, i, "taken")
  /\ UNCHANGED <<now, users, pending_jobs, job_seq, tick, snz,
                 job_sends, plan_sends, journal>>

cb_skip(u, i) ==
  /\ intakes' = MarkIntake(intakes, u, i, "skip")
  /\ UNCHANGED <<now, users, pending_jobs, job_seq, tick, snz,
                 job_sends, plan_sends, journal>>

\* ---------------------------------------------------------------- journal
\* A journal query without the created_at condition.
JournalRowsAllTime(tbl, u, t) ==
  {i \in 1..Len(tbl) : tbl[i].tg_id = u /\ tbl[i].status \in Terminal}

\* WHERE tg_id=$1 AND created_at >= NOW() - INTERVAL '7 days'
\*   AND status IN ('taken','skip')
JournalRows(tbl, u, t) ==
  {i \in 1..Len(tbl) :
     /\ tbl[i].tg_id = u
     /\ tbl[i].created_at >= t - JournalDays * DaySeconds
     /\ tbl[i].status \in Terminal}

\* COUNT(*) ... GROUP BY status, read into taken and skip
StatusCount(tbl, rows, st) == Cardinality({i \in rows : tbl[i].status = st})

\* adherence = (taken / total * 100.0) if total else 0.0
Adherence(taken, total) ==
  IF total # 0 THEN [num |-> taken * 100, den |-> total]
  ELSE [num |-> 0, den |-> 1]

\* cb_journal: ensure_user, the 7-day query and the message with the counts
\* and the adherence.
cb_journal(u) ==
  /\ users' = ensure_user(users, u)
  /\ LET rows == JournalRows(intakes, u, now)
         taken == StatusCount(intakes, rows, "taken")
         skip == StatusCount(intakes, rows, "skip")
     IN  journal' = [tg_id |-> u, taken |-> taken, skip |-> skip,
                     adherence |-> Adherence(taken, taken + skip)]
  /\ UNCHANGED <<now, intakes, pending_jobs, job_seq, tick, snz, job_sends,
                 plan_sends>>

\* SELECT status FROM intakes WHERE id=$1 AND tg_id=$2 (None when no row).
OwnedStatus(u, i) ==
  IF i \in IntakeIds /\ intakes[i].tg_id = u THEN intakes[i].status ELSE "none"

\* cb_snooze up to the status check: a closed intake is answered and left.
cb_snooze_check(u, i, minutes) ==
  /\ snz.pc = "idle"
  /\ job_seq < MaxJobs
  /\ snz' = IF OwnedStatus(u, i) \in Terminal THEN SnzIdle
             ELSE [pc |-> "update", tg_id |-> u, intake_id |-> i,
                   minutes |-> minutes, run_at |-> NULL]
  /\ UNCHANGED <<now, users, intakes, pending_jobs, job_seq, tick,
                 job_sends, plan_sends, journal>>

\* run_at = now(UTC) + minutes; UPDATE intakes SET snoozed_until=run_at.
SnoozeRunAt(minutes) == now + minutes * 60

\* An UPDATE that also puts the status back to sent.
SetSnoozedReopen(tbl, u, i, run_at) ==
  IF i \in 1..Len(tbl) /\ tbl[i].tg_id = u
  THEN [tbl EXCEPT ![i].snoozed_until = run_at, ![i].status = "sent"]
  ELSE tbl

SetSnoozed(tbl, u, i, run_at) ==
  IF i \in 1..Len(tbl) /\ tbl[i].tg_id = u
  THEN [tbl EXCEPT ![i].snoozed_until = run_at]
  ELSE tbl

cb_snooze_update ==
  /\ snz.pc = "update"
  /\ intakes' = SetSnoozed(intakes, snz.tg_id, snz.intake_id,
                           SnoozeRunAt(snz.minutes))
  /\ snz' = [snz EXCEPT !.pc = "insert", !.run_at = SnoozeRunAt(snz.minutes)]
  /\ UNCHANGED <<now, users, pending_jobs, job_seq, tick, job_sends, plan_sends,
                 journal>>

\* INSERT INTO pending_jobs; both foreign keys must resolve, otherwise the
\* statement raises and the handler ends without a reply.
ForeignKeysHold(u, i) == users[u].present /\ i \in IntakeIds

cb_snooze_insert ==
  /\ snz.pc = "insert"
  /\ IF ForeignKeysHold(snz.tg_id, snz.intake_id)
     THEN /\ job_seq' = job_seq + 1
          /\ pending_jobs' = pending_jobs \cup
               {[id |-> job_seq + 1, tg_id |-> snz.tg_id,
                 intake_id |-> snz.intake_id, run_at |-> snz.run_at]}
          /\ job_sends' = Append(job_sends, 0)
     ELSE UNCHANGED <<job_seq, pending_jobs, job_sends>>
  /\ snz' = SnzIdle
  /\ UNCHANGED <<now, users, intakes, tick, plan_sends, journal>>

\* --------------------------------------------------------- scheduler_tick
Min(a, b) == IF a < b THEN a ELSE b

\* Orders in which a query may return the rows of S when sorted by key.
\* Rows with equal keys come in any order; key "none" is no ORDER BY.
RowOrders(S, sorted) ==
  {f \in [1..Cardinality(S) -> S] :
     /\ \A a, b \in 1..Cardinality(S) : a # b => f[a] # f[b]
     /\ sorted => \A a, b \in 1..Cardinality(S) :
                     a < b => f[a].run_at <= f[b].run_at}

UserRow(u) == [tg_id |-> u, reminders_enabled |-> users[u].reminders_enabled,
               remind1 |-> users[u].remind1, remind2 |-> users[u].remind2]

\* SELECT tg_id, tz, reminders_enabled, remind1, remind2 FROM users
UserSnapshots ==
  RowOrders({UserRow(u) : u \in {v \in Users : users[v].present}}, FALSE)

\* A pending_jobs query without the run_at condition.
AnyJobs(t) == pending_jobs

\* WHERE run_at <= NOW()
DueJobs(t) == {j \in pending_jobs : j.run_at <= t}

\* ORDER BY run_at ASC LIMIT <limit>
LimitedBatches(t, limit) ==
  {SubSeq(f, 1, Min(Len(f), limit)) : f \in RowOrders(DueJobs(t), TRUE)}

\* ORDER BY run_at ASC LIMIT 100
PendingBatches(t) == LimitedBatches(t, BatchLimit)

\* Entering the due-slot pass: the first user of the snapshot, if any.
StartUsers(t) ==
  IF Len(t.users) = 0 THEN TickIdle
  ELSE [t EXCEPT !.pc = "user", !.ui = 1, !.pending = <<>>, !.ji = 0]

NextJob(t) ==
  IF t.ji < Len(t.pending)
  THEN [t EXCEPT !.pc = "job_status", !.ji = t.ji + 1]
  ELSE StartUsers(t)

\* The two queries that open the tick.  The first reads only users and the
\* second only pending_jobs and the clock, and no handler step writes both
\* tables, so a step between them is the same as one before or after both.
TickFetch ==
  /\ tick.pc = "idle"
  /\ \E f \in UserSnapshots, batch \in PendingBatches(now) :
       tick' = NextJob([TickIdle EXCEPT !.users = f, !.pending = batch])
  /\ UNCHANGED <<now, users, intakes, pending_jobs, job_seq, snz,
                 job_sends, plan_sends, journal>>

TickJob == tick.pending[tick.ji]

\* A check that also drops a job an occurrence's later snooze superseded.
JobStale(job) ==
  \/ intakes[job.intake_id].status \in Terminal
  \/ intakes[job.intake_id].snoozed_until # job.run_at

\* status = SELECT status FROM intakes WHERE id=$1; if status in (taken, skip)
JobClosed(job) == intakes[job.intake_id].status \in Terminal

\* DELETE FROM pending_jobs WHERE id=$1
DeleteJob(jobs, jid) == {j \in jobs : j.id # jid}

\* The status read of one job; a closed intake's job is deleted and the loop
\* continues (the DELETE is by id and commutes with every handler step), an
\* open one goes on to the send after this await.
TickJobStatus ==
  /\ tick.pc = "job_status"
  /\ IF JobClosed(TickJob)
     THEN /\ pending_jobs' = DeleteJob(pending_jobs, TickJob.id)
          /\ tick' = NextJob(tick)
     ELSE /\ tick' = [tick EXCEPT !.pc = "job_send"]
          /\ UNCHANGED pending_jobs
  /\ UNCHANGED <<now, users, intakes, job_seq, snz, job_sends, plan_sends,
                 journal>>

\* A delete that runs only after a delivered send.
DeleteIfSent(jobs, jid, ok) == IF ok THEN DeleteJob(jobs, jid) ELSE jobs

\* try: send ... finally: DELETE FROM pending_jobs WHERE id=$1
FinallyDelete(jobs, jid, ok) == DeleteJob(jobs, jid)

\* The tick after a send: a raised send leaves the coroutine with the
\* exception, a delivered one continues the loop.
Raised == [TickIdle EXCEPT !.raised = TRUE]

AfterJobSend(t, ok) == IF ok THEN NextJob(t) ELSE Raised

\* slot lookup, send_intake_reminder (the notifier answers or raises) and
\* the finally-clause's DELETE, which is by id and commutes with every
\* handler step that could run during the send.
TickJobSend ==
  /\ tick.pc = "job_send"
  /\ \E ok \in BOOLEAN :
       /\ pending_jobs' = FinallyDelete(pending_jobs, TickJob.id, ok)
       /\ tick' = AfterJobSend(tick, ok)
  /\ job_sends' = [job_sends EXCEPT ![TickJob.id] = @ + 1]
  /\ UNCHANGED <<now, users, intakes, job_seq, snz, plan_sends, journal>>

NextUser(t) ==
  IF t.ui < Len(t.users)
  THEN [t EXCEPT !.pc = "user", !.ui = t.ui + 1, !.now = NULL, !.slot = 0,
                 !.intake_id = NULL, !.awaited = FALSE]
  ELSE TickIdle

NextSlot(t) ==
  IF t.slot = 1
  THEN [t EXCEPT !.pc = "slot", !.slot = 2, !.intake_id = NULL]
  ELSE NextUser(t)

TickUserRow == tick.users[tick.ui]

\* for u in users: if not reminders_enabled: continue; now = now_in_tz(tz)
TickUser ==
  /\ tick.pc = "user"
  /\ tick' = IF ~TickUserRow.reminders_enabled THEN NextUser(tick)
             ELSE [tick EXCEPT !.pc = "slot", !.now = now, !.slot = 1,
                               !.awaited = FALSE]
  /\ UNCHANGED <<now, users, intakes, pending_jobs, job_seq, snz, job_sends, plan_sends,
                 journal>>

\* A gate that matches the whole minute.
SlotDueAnySecond(t, p) ==
  /\ LocalHour(t) = p.h
  /\ LocalMinute(t) = p.m

\* now.hour == h and now.minute == m and now.second < 30
SlotDue(t, p) ==
  /\ LocalHour(t) = p.h
  /\ LocalMinute(t) = p.m
  /\ LocalSecond(t) < WindowSeconds

\* A duplicate check that compares the planned instant instead of its day.
ExistingSameInstant(tbl, u, slot, planned) ==
  {i \in 1..Len(tbl) :
     /\ tbl[i].tg_id = u
     /\ tbl[i].slot = slot
     /\ tbl[i].planned_at = planned}

\* SELECT id FROM intakes WHERE tg_id AND slot AND planned_at in [start, end)
ExistingIntakes(tbl, u, slot, planned) ==
  {i \in 1..Len(tbl) :
     /\ tbl[i].tg_id = u
     /\ tbl[i].slot = slot
     /\ tbl[i].planned_at >= DayStart(planned)
     /\ tbl[i].planned_at < DayStart(planned) + DaySeconds}

\* INSERT INTO intakes (tg_id, planned_at, slot); created_at DEFAULT NOW()
NewIntake(u, slot, planned, t) ==
  [tg_id |-> u, planned_at |-> planned, slot |-> slot, status |-> "sent",
   snoozed_until |-> NULL, created_at |-> t]

\* create_intake_if_needed: the table after the call (unchanged when a row
\* for the day exists); the caller gets the new id exactly when it grew.
\* today_slot_dt reads the clock on entry (value t), the INSERT runs after
\* the awaits (clock value ins).
create_intake_if_needed(tbl, u, slot, hhmm, t, ins) ==
  LET planned == today_slot_dt(t, hhmm)
  IN  IF ExistingIntakes(tbl, u, slot, planned) # {} THEN tbl
      ELSE Append(tbl, NewIntake(u, slot, planned, ins))

TickSlotText == IF tick.slot = 1 THEN TickUserRow.remind1 ELSE TickUserRow.remind2

SlotParsed == Parsed(TickSlotText)

\* The clock value today_slot_dt reads for the slot under evaluation.  No
\* await lies between the tick's own clock reading and the call unless an
\* earlier slot of this user passed the gate (create_intake_if_needed and
\* the send await); after those awaits the clock has moved on.
PlannedClock == IF tick.awaited THEN now ELSE tick.now

\* The intakes table after create_intake_if_needed for the slot under
\* evaluation.
SlotTable ==
  create_intake_if_needed(intakes, TickUserRow.tg_id, tick.slot,
                          SlotParsed.text, PlannedClock, now)

\* The slot under evaluation passes the parse and the gate, so
\* create_intake_if_needed is awaited.
SlotCalled == SlotParsed.ok /\ SlotDue(tick.now, SlotParsed)

\* A slot loop without the try/except around parse_hhmm.
SlotSkippedUnparsed ==
  \/ ~SlotDue(tick.now, SlotParsed)
  \/ SlotTable = intakes

\* The iteration ends without a send: the text does not parse, the gate is
\* closed, or create_intake_if_needed returned None.
SlotSkipped ==
  \/ ~SlotParsed.ok
  \/ ~SlotDue(tick.now, SlotParsed)
  \/ SlotTable = intakes

\* one iteration of the slot loop up to the send
TickSlot ==
  /\ tick.pc = "slot"
  /\ \/ /\ SlotSkipped
        /\ tick' = NextSlot([tick EXCEPT !.awaited = @ \/ SlotCalled])
        /\ UNCHANGED <<intakes, plan_sends>>
     \/ /\ ~SlotSkipped
        /\ Len(intakes) < MaxIntakes
        /\ intakes' = SlotTable
        /\ plan_sends' = Append(plan_sends, 0)
        /\ tick' = [tick EXCEPT !.pc = "slot_send", !.awaited = TRUE,
                                !.intake_id = Len(intakes) + 1]
  /\ UNCHANGED <<now, users, pending_jobs, job_seq, snz, job_sends, journal>>

\* What the tick does after the scheduled send: a raised send leaves the
\* coroutine.
AfterSlotSend(t, ok) == IF ok THEN NextSlot(t) ELSE Raised

\* if intake_id: send_intake_reminder
TickSlotSend ==
  /\ tick.pc = "slot_send"
  /\ \E ok \in BOOLEAN : tick' = AfterSlotSend(tick, ok)
  /\ plan_sends' = [plan_sends EXCEPT ![tick.intake_id] = @ + 1]
  /\ UNCHANGED <<now, users, intakes, pending_jobs, job_seq, snz, job_sends,
                 journal>>

TickStep ==
  \/ TickFetch
  \/ TickJobStatus
  \/ TickJobSend
  \/ TickUser
  \/ TickSlot
  \/ TickSlotSend

\* Every handler and every step of the tick, interleaved.
Next ==
  \/ ClockAdvance
  \/ \E u \in Users : cmd_start(u)
  \/ \E u \in Users : cb_toggle(u)
  \/ \E c \in SetTimeInputs : on_text(c[1], c[2], c[3])
  \/ \E u \in Users, i \in CallbackIds : cb_taken(u, i)
  \/ \E u \in Users, i \in CallbackIds : cb_skip(u, i)
  \/ \E c \in SnoozeInputs : cb_snooze_check(c[1], c[2], c[3])
  \/ cb_snooze_update
  \/ cb_snooze_insert
  \/ \E u \in Users : cb_journal(u)
  \/ TickStep

Spec == Init /\ [][Next]_vars

\* Scheduling: registration, settings, acknowledge/skip and the tick on an
\* initially empty store.  No snooze is issued, so pending_jobs stays empty
\* and the tick goes from the fetch straight to the due-slot pass.
SchedNext ==
  \/ ClockAdvance
  \/ \E u \in Users : cmd_start(u)
  \/ cb_toggle(1)
  \/ \E c \in SetTimeInputs : on_text(c[1], c[2], c[3])
  \/ \E c \in AckInputs : cb_taken(c[1], c[2])
  \/ \E c \in AckInputs : cb_skip(c[1], c[2])
  \/ TickFetch
  \/ TickUser
  \/ TickSlot
  \/ TickSlotSend

SchedSpec == Init /\ [][SchedNext]_vars

\* Deferred delivery: both users are registered, user 1 has slot 1 at 23:59
\* and user 2 has reminders off (after /start, one set-time and one toggle);
\* settings are then left alone.
JobInit ==
  /\ now = StartTime
  /\ users = [u \in Users |->
                IF u = 1 THEN [NewUser EXCEPT !.remind1 = Late]
                ELSE [NewUser EXCEPT !.reminders_enabled = FALSE]]
  /\ intakes = <<>>
  /\ pending_jobs = {}
  /\ job_seq = 0
  /\ tick = TickIdle
  /\ snz = SnzIdle
  /\ job_sends = <<>>
  /\ plan_sends = <<>>
  /\ journal = NoJournal

JobNext ==
  \/ ClockAdvance
  \/ \E u \in Users, i \in CallbackIds : cb_taken(u, i)
  \/ \E u \in Users, i \in CallbackIds : cb_skip(u, i)
  \/ \E c \in SnoozeInputs : cb_snooze_check(c[1], c[2], c[3])
  \/ cb_snooze_update
  \/ cb_snooze_insert
  \/ TickStep

JobSpec == JobInit /\ [][JobNext]_vars

\* The owner of intake 1 acknowledges, skips and snoozes it.  The scheduler
\* starts the tick every period and every await of a running tick returns:
\* the tick's next step is eventually taken.
LiveNext ==
  \/ ClockAdvance
  \/ cb_taken(1, 1)
  \/ cb_skip(1, 1)
  \/ cb_snooze_check(1, 1, 1)
  \/ cb_snooze_update
  \/ cb_snooze_insert
  \/ TickStep

FairJobSpec == JobInit /\ [][LiveNext]_vars /\ WF_vars(TickStep)

\* Journal: tables of a store that has run for more than a week.  User 1
\* has nT taken, nS skip and nSent sent rows of the last days, two per day
\* (one per slot); nOld taken rows created exactly seven days before the
\* start, which leave the window when the clock advances; user 2 has nOther
\* taken rows.
RecentRow(k, u, st) ==
  [tg_id |-> u, slot |-> (k % 2) + 1, status |-> st, snoozed_until |-> NULL,
   planned_at |-> StartTime - ((k \div 2) + 1) * DaySeconds,
   created_at |-> StartTime - ((k \div 2) + 1) * DaySeconds]

OldRow(u) ==
  [tg_id |-> u, slot |-> 1, status |-> "taken", snoozed_until |-> NULL,
   planned_at |-> StartTime - JournalDays * DaySeconds,
   created_at |-> StartTime - JournalDays * DaySeconds]

JournalTable(nT, nS, nSent, nOld, nOther) ==
  [k \in 1..(nT + nS + nSent + nOld + nOther) |->
     IF k <= nT THEN RecentRow(k, 1, "taken")
     ELSE IF k <= nT + nS THEN RecentRow(k, 1, "skip")
     ELSE IF k <= nT + nS + nSent THEN RecentRow(k, 1, "sent")
     ELSE IF k <= nT + nS + nSent + nOld THEN OldRow(1)
     ELSE RecentRow(1, 2, "taken")]

JournalInit ==
  /\ now = StartTime
  /\ users = [u \in Users |-> NewUser]
  /\ \E nT \in 0..MaxTaken, nS \in 0..MaxSkip, nSent \in 0..1, nOld \in 0..1,
        nOther \in 0..1 :
       /\ intakes = JournalTable(nT, nS, nSent, nOld, nOther)
       /\ plan_sends = [k \in 1..(nT + nS + nSent + nOld + nOther) |-> 1]
  /\ pending_jobs = {}
  /\ job_seq = 0
  /\ tick = TickIdle
  /\ snz = SnzIdle
  /\ job_sends = <<>>
  /\ journal = NoJournal

JournalNext ==
  \/ ClockAdvance
  \/ \E c \in AckInputs : cb_taken(c[1], c[2])
  \/ \E c \in AckInputs : cb_skip(c[1], c[2])
  \/ \E u \in Users : cb_journal(u)

JournalSpec == JournalInit /\ [][JournalNext]_vars

\* Same minute: user 1 has set both slots to 23:59 (after /start and two
\* set-time messages); user 2 is registered with the defaults.
SameMinuteInit ==
  /\ now = StartTime
  /\ users = [u \in Users |->
                IF u = 1 THEN [NewUser EXCEPT !.remind1 = Late, !.remind2 = Late]
                ELSE NewUser]
  /\ intakes = <<>>
  /\ pending_jobs = {}
  /\ job_seq = 0
  /\ tick = TickIdle
  /\ snz = SnzIdle
  /\ job_sends = <<>>
  /\ plan_sends = <<>>
  /\ journal = NoJournal

SameMinuteNext ==
  \/ ClockAdvance
  \/ \E c \in AckInputs : cb_taken(c[1], c[2])
  \/ \E c \in AckInputs : cb_skip(c[1], c[2])
  \/ TickFetch
  \/ TickUser
  \/ TickSlot
  \/ TickSlotSend

SameMinuteSpec == SameMinuteInit /\ [][SameMinuteNext]_vars

\* Stored config the handlers did not write: the users table holds slot
\* times put there outside set_user_time (the columns are plain TEXT).  User
\* 1 has slot 1 = 24:00 and slot 2 = 23:59, user 2 has slot 1 = 23:59 and
\* slot 2 = 7.
Unparsable1 == <<"2", "4", ":", "0", "0">>

Unparsable2 == <<"7">>

BadConfigInit ==
  /\ now = StartTime
  /\ users = [u \in Users |->
                IF u = 1
                THEN [NewUser EXCEPT !.remind1 = Unparsable1, !.remind2 = Late]
                ELSE [NewUser EXCEPT !.remind1 = Late, !.remind2 = Unparsable2]]
  /\ intakes = <<>>
  /\ pending_jobs = {}
  /\ job_seq = 0
  /\ tick = TickIdle
  /\ snz = SnzIdle
  /\ job_sends = <<>>
  /\ plan_sends = <<>>
  /\ journal = NoJournal

BadConfigNext ==
  \/ ClockAdvance
  \/ cb_toggle(1)
  \/ \E c \in AckInputs : cb_taken(c[1], c[2])
  \/ \E c \in AckInputs : cb_skip(c[1], c[2])
  \/ TickFetch
  \/ TickUser
  \/ TickSlot
  \/ TickSlotSend

BadConfigSpec == BadConfigInit /\ [][BadConfigNext]_vars

\* ================================================================ claims

SameSlotDay(a, b) ==
  /\ a.tg_id = b.tg_id
  /\ a.slot = b.slot
  /\ LocalDay(a.planned_at) = LocalDay(b.planned_at)

\* C1: the intakes table never holds two occurrences of the same user and
\* slot whose planned instants fall on the same local calendar day.
C1_OnePerSlotDay ==
  \A i, j \in IntakeIds : i # j => ~SameSlotDay(intakes[i], intakes[j])

\* C1 witness: the tick has just passed the gate for slot 1 of a user whose
\* slot 1 already fired earlier the same day at an earlier minute (the slot
\* time was moved), and the table still holds that single occurrence.
C1_Witness ==
  /\ tick.pc = "slot"
  /\ tick.slot = 2
  /\ LET p == Parsed(TickUserRow.remind1)
     IN  /\ p.ok
         /\ LocalHour(tick.now) = p.h
         /\ LocalMinute(tick.now) = p.m
         /\ LocalSecond(tick.now) < 30
         /\ \E i \in IntakeIds :
              /\ intakes[i].tg_id = TickUserRow.tg_id
              /\ intakes[i].slot = 1
              /\ LocalDay(intakes[i].planned_at) = LocalDay(tick.now)
              /\ LocalMinute(intakes[i].planned_at) < p.m

\* The tick's clock reading for the current user matches the text of the
\* slot under evaluation: same hour, same minute, second below 30.
C7_GateHolds ==
  LET text == IF tick.slot = 1 THEN tick.users[tick.ui].remind1
              ELSE tick.users[tick.ui].remind2
      p == Parsed(text)
  IN  /\ tick.pc = "slot"
      /\ p.ok
      /\ ((tick.now + TzOffset) % 86400) \div 3600 = p.h
      /\ ((tick.now + TzOffset) % 3600) \div 60 = p.m
      /\ (tick.now + TzOffset) % 60 < 30

C7_CreatedOnlyWhenDue ==
  Len(intakes') > Len(intakes) =>
    /\ C7_GateHolds
    /\ Len(intakes') = Len(intakes) + 1
    /\ intakes'[Len(intakes')].status = "sent"
    /\ intakes'[Len(intakes')].tg_id = tick.users[tick.ui].tg_id
    /\ intakes'[Len(intakes')].slot = tick.slot
    /\ tick'.pc = "slot_send"
    /\ tick'.intake_id = Len(intakes')

C7_DeliveredIffCreated ==
  /\ Len(plan_sends) = Len(intakes)
  /\ \A i \in IntakeIds :
       plan_sends[i] = IF tick.pc = "slot_send" /\ tick.intake_id = i
                       THEN 0 ELSE 1

\* C7: the tick inserts an occurrence only in a slot iteration whose clock
\* reading has the slot's hour and minute and a second below 30, the new row
\* has status sent, and the scheduled reminder is sent once for exactly the
\* occurrences the tick created (the send follows the insert).
C7_DueGate == [][C7_CreatedOnlyWhenDue]_vars /\ []C7_DeliveredIffCreated

\* C7 witness: an occurrence with status sent exists, its scheduled reminder
\* was sent once, and the tick is evaluating a slot again within the minute.
C7_Witness ==
  /\ tick.pc = "slot"
  /\ \E i \in IntakeIds :
       /\ intakes[i].status = "sent"
       /\ plan_sends[i] = 1
       /\ intakes[i].tg_id = TickUserRow.tg_id
       /\ intakes[i].slot = tick.slot
       /\ LocalMinute(intakes[i].planned_at) = LocalMinute(tick.now)
       /\ LocalDay(intakes[i].planned_at) = LocalDay(tick.now)

JobPending(jid) == \E j \in pending_jobs : j.id = jid

JobDue(jid) == \E j \in pending_jobs : j.id = jid /\ j.run_at <= now

\* C9: under repeated ticks every deferred job whose due instant has passed
\* is eventually removed from pending_jobs, whatever the notifier answers;
\* and the step that attempts a job's delivery removes that job, delivered
\* or not.
C9_QueueProgress ==
  /\ \A jid \in 1..MaxJobs : JobDue(jid) ~> ~JobPending(jid)
  /\ [][\A jid \in 1..Len(job_sends) :
          job_sends'[jid] > job_sends[jid] => ~JobPending(jid)']_vars

\* C9 witness: a tick ended with the notifier's exception, and the job it
\* attempted is gone while another due job is still queued for a later tick.
C9_Witness ==
  /\ tick.raised
  /\ \E jid \in 1..Len(job_sends) : job_sends[jid] = 1 /\ ~JobPending(jid)
  /\ \E jid \in 1..Len(job_sends) : JobDue(jid)

Owns(u, i) == i \in IntakeIds /\ intakes[i].tg_id = u

\* C2: no step of a tick sends a deferred reminder for an occurrence whose
\* status is taken or skip at the time of the send.
C2_NoSendOnceClosed ==
  [][\A j \in pending_jobs :
       job_sends'[j.id] > job_sends[j.id] =>
         intakes[j.intake_id].status \notin Terminal]_vars

\* C3: an occurrence whose status is taken or skip keeps that status in
\* every later step.
C3_TerminalStays ==
  [][\A i \in IntakeIds :
       intakes[i].status \in Terminal =>
         intakes'[i].status = intakes[i].status]_vars

\* C4: no step inserts a deferred job that references an occurrence whose
\* status is taken or skip at the moment of the insert.
C4_NoJobForClosed ==
  [][\A j \in pending_jobs' \ pending_jobs :
       intakes[j.intake_id].status \notin Terminal]_vars

InJobLoop(t) == t.pc \in {"job_status", "job_send"}

\* C5: when the deferred pass of a tick ends, every job the tick fetched as
\* due is removed, and each one whose occurrence is still sent has had
\* exactly one delivery attempt; no job is ever attempted twice.
C5_FirstTickDelivers ==
  /\ [][(InJobLoop(tick) /\ ~InJobLoop(tick')) =>
          \A k \in 1..Len(tick.pending) :
            /\ \A j \in pending_jobs' : j.id # tick.pending[k].id
            /\ intakes'[tick.pending[k].intake_id].status = "sent" =>
                 job_sends'[tick.pending[k].id] = 1]_vars
  /\ [](\A jid \in 1..Len(job_sends) : job_sends[jid] <= 1)

\* C6: acknowledge and markSkipped by a user who does not own the occurrence,
\* or on an id that does not exist, answer NotFound and leave the table as
\* it is.
C6_NotFoundReported ==
  \A u \in Users, i \in CallbackIds :
    ~Owns(u, i) =>
      /\ cb_taken_reply(intakes, u, i) = "NotFound"
      /\ cb_skip_reply(intakes, u, i) = "NotFound"
      /\ MarkIntake(intakes, u, i, "taken") = intakes
      /\ MarkIntake(intakes, u, i, "skip") = intakes

\* The tick is in the last iteration of its work: no fetched job is left
\* and the last slot of the last user of the snapshot is under evaluation.
LastIteration ==
  /\ tick.ji = Len(tick.pending)
  /\ tick.ui = Len(tick.users)
  /\ tick.pc \in {"slot", "slot_send"} => tick.slot = 2

\* C8: a tick ends only after it has handled every fetched job and every
\* slot of every user of its snapshot, also when a send raised.
C8_TickCompletes ==
  [][(tick.pc # "idle" /\ tick'.pc = "idle") => LastIteration]_vars

\* What the UPDATE of cb_taken / cb_skip gives for owner u and status st:
\* the row has status st and no snooze deadline, the other rows are as they
\* were, and the same UPDATE applied again changes nothing.
C10_AckResult(u, i, st) ==
  LET once == MarkIntake(intakes, u, i, st)
  IN  /\ once[i].status = st
      /\ once[i].snoozed_until = NULL
      /\ \A k \in IntakeIds \ {i} : once[k] = intakes[k]
      /\ MarkIntake(once, u, i, st) = once

\* C10: acknowledge by the owner sets status taken and clears the snooze
\* deadline, whatever the occurrence's state was, and applying it again
\* leaves the occurrence as it is; markSkipped likewise with status skip;
\* every cb_taken / cb_skip step of the owner ends in that row.
C10_AckSetsAndClears ==
  /\ [](\A u \in Users, i \in IntakeIds :
          Owns(u, i) => C10_AckResult(u, i, "taken") /\ C10_AckResult(u, i, "skip"))
  /\ [][\A u \in Users, i \in IntakeIds :
          Owns(u, i) =>
            /\ cb_taken(u, i) =>
                 /\ intakes'[i].status = "taken"
                 /\ intakes'[i].snoozed_until = NULL
            /\ cb_skip(u, i) =>
                 /\ intakes'[i].status = "skip"
                 /\ intakes'[i].snoozed_until = NULL]_vars

\* C10 witness: an occurrence its owner snoozed (the owner's job is still
\* queued) is taken and carries no snooze deadline.
C10_Witness ==
  \E j \in pending_jobs :
    /\ Owns(j.tg_id, j.intake_id)
    /\ intakes[j.intake_id].status = "taken"
    /\ intakes[j.intake_id].snoozed_until = NULL

\* A stored slot time is two digits, a colon and two digits, with the hour
\* at most 23 and the minute at most 59.
C11_WellFormed(t) ==
  /\ Len(t) = 5
  /\ t[3] = ":"
  /\ \A k \in {1, 2, 4, 5} : IsDigit(t[k])
  /\ 10 * DigitVal(t[1]) + DigitVal(t[2]) <= 23
  /\ 10 * DigitVal(t[4]) + DigitVal(t[5]) <= 59

\* The texts of SetTimeInputs that parse_hhmm accepts have an hour in 0..23
\* and a minute in 0..59 and come back well-formed.
C11_AcceptedInRange ==
  \A c \in SetTimeInputs :
    Parsed(c[3]).ok =>
      /\ Parsed(c[3]).h \in 0..23
      /\ Parsed(c[3]).m \in 0..59
      /\ C11_WellFormed(Parsed(c[3]).text)

C11_Rejected == {c \in SetTimeInputs : ~Parsed(c[3]).ok}

\* C11: every stored slot time is a well-formed zero-padded HH:MM that
\* parses to itself; a text is accepted only with hour 0..23 and minute
\* 0..59, and a rejected text leaves the users table as it is.
C11_StoredTimesValid ==
  /\ C11_AcceptedInRange
  /\ \A u \in Users :
       users[u].present =>
         /\ C11_WellFormed(users[u].remind1)
         /\ C11_WellFormed(users[u].remind2)
         /\ Parsed(users[u].remind1).text = users[u].remind1
         /\ Parsed(users[u].remind2).text = users[u].remind2
  /\ \A c \in C11_Rejected :
       set_user_time_row(users, c[1], c[2], c[3]) = users

\* C11 witness: users 1 and 2 typed 0:0 for slot 1 and slot 2; the stored
\* times are the padded 00:00.
C11_Witness ==
  /\ users[1].present
  /\ users[1].remind1 = <<"0", "0", ":", "0", "0">>
  /\ users[2].present
  /\ users[2].remind2 = <<"0", "0", ":", "0", "0">>

\* C12: the journal message of user u carries the number of u's taken rows
\* and of u's skip rows created within the last seven days, and an adherence
\* of taken / (taken + skip) in percent, 0 when there is no such row; sent
\* rows, older rows and other users' rows are not counted.
C12_Adherence ==
  [][\A u \in Users :
       cb_journal(u) =>
         LET InWindow(i) == intakes[i].tg_id = u /\
                            now - intakes[i].created_at <= 7 * 86400
             T == Cardinality({i \in IntakeIds :
                                 InWindow(i) /\ intakes[i].status = "taken"})
             S == Cardinality({i \in IntakeIds :
                                 InWindow(i) /\ intakes[i].status = "skip"})
         IN  /\ journal'.taken = T
             /\ journal'.skip = S
             /\ journal'.adherence.den > 0
             /\ T + S = 0 => journal'.adherence.num = 0
             /\ T + S > 0 => journal'.adherence.num * (T + S) =
                               100 * T * journal'.adherence.den]_vars

\* C12 witness: the journal of user 1 reports 5 taken, 3 skip and 62.5 %
\* while the table also holds a sent row of user 1, a taken row of user 1
\* older than seven days and a taken row of user 2.
C12_Witness ==
  /\ journal.tg_id = 1
  /\ journal.taken = 5
  /\ journal.skip = 3
  /\ journal.adherence.num * 10 = 625 * journal.adherence.den
  /\ \E i \in IntakeIds : intakes[i].tg_id = 1 /\ intakes[i].status = "sent"
  /\ \E i \in IntakeIds : /\ intakes[i].tg_id = 1
                          /\ intakes[i].status = "taken"
                          /\ now - intakes[i].created_at > 7 * 86400
  /\ \E i \in IntakeIds : intakes[i].tg_id = 2 /\ intakes[i].status = "taken"

\* C13: every deferred job references an existing occurrence that belongs
\* to the job's user, so no step inserts a job for a caller who does not own
\* the occurrence and no tick sends an occurrence's reminder to another user.
C13_JobsBelongToOwner ==
  \A j \in pending_jobs :
    /\ j.intake_id \in IntakeIds
    /\ intakes[j.intake_id].tg_id = j.tg_id

\* C14: an occurrence with status taken or skip carries no snooze deadline.
C14_ClosedHasNoDeadline ==
  \A i \in IntakeIds :
    intakes[i].status \in Terminal => intakes[i].snoozed_until = NULL

\* What the pending_jobs query may return at the current instant under
\* LIMIT limit: only due jobs, each once, in non-decreasing order of run_at,
\* as many as are due up to the limit, and no job left out is due earlier
\* than a job returned.
C15_BatchOk(batch, limit) ==
  /\ Len(batch) <= limit
  /\ Len(batch) = Min(limit, Cardinality({j \in pending_jobs : j.run_at <= now}))
  /\ \A k \in 1..Len(batch) : batch[k] \in pending_jobs /\ batch[k].run_at <= now
  /\ \A a, b \in 1..Len(batch) : a < b =>
       batch[a] # batch[b] /\ batch[a].run_at <= batch[b].run_at
  /\ \A j \in pending_jobs :
       (j.run_at <= now /\ \A k \in 1..Len(batch) : batch[k] # j) =>
         \A k \in 1..Len(batch) : batch[k].run_at <= j.run_at

C16_SnoozeFrame ==
  [][Owns(snz'.tg_id, snz'.intake_id) \/ Owns(snz.tg_id, snz.intake_id) =>
       /\ (snz.pc = "idle" /\ snz'.pc = "update") =>
            intakes' = intakes /\ pending_jobs' = pending_jobs
       /\ (snz.pc = "update" /\ snz'.pc = "insert") =>
            /\ snz'.run_at = now + snz.minutes * 60
            /\ intakes'[snz.intake_id].snoozed_until = snz'.run_at
            /\ intakes'[snz.intake_id].status = intakes[snz.intake_id].status
            /\ \A k \in IntakeIds \ {snz.intake_id} : intakes'[k] = intakes[k]
            /\ Len(intakes') = Len(intakes)
            /\ pending_jobs' = pending_jobs
       /\ (snz.pc = "insert" /\ snz'.pc = "idle") =>
            /\ intakes' = intakes
            /\ pending_jobs \subseteq pending_jobs'
            /\ \E j \in pending_jobs' \ pending_jobs :
                 /\ pending_jobs' = pending_jobs \cup {j}
                 /\ j.run_at = snz.run_at
                 /\ j.intake_id = snz.intake_id
                 /\ j.tg_id = snz.tg_id]_vars

\* C16 witness: a snooze by the owner has finished: the occurrence is still
\* sent, carries a snooze deadline, and a queued job of the owner is due at
\* that same instant.
C16_Witness ==
  /\ snz.pc = "idle"
  /\ \E j \in pending_jobs :
       /\ Owns(j.tg_id, j.intake_id)
       /\ intakes[j.intake_id].status = "sent"
       /\ intakes[j.intake_id].snoozed_until = j.run_at

\* C17: a snooze never removes or replaces a queued job; a job of an
\* occurrence that is still sent leaves the queue only by a delivery attempt
\* of its own, and gets that attempt once it is due; no job is attempted
\* twice; every snooze overwrites the occurrence's deadline, so a deadline
\* present after the last snooze finished is the due instant of the job that
\* snooze inserted.
C17_SnoozesAccumulate ==
  /\ [][snz' # snz => pending_jobs \subseteq pending_jobs']_vars
  /\ [][\A j \in pending_jobs \ pending_jobs' :
          intakes[j.intake_id].status = "sent" =>
            job_sends[j.id] = 0 /\ job_sends'[j.id] = 1]_vars
  /\ [](\A jid \in 1..Len(job_sends) : job_sends[jid] <= 1)
  /\ \A jid \in 1..MaxJobs :
       JobDue(jid) ~>
         \/ (jid <= Len(job_sends) /\ job_sends[jid] = 1)
         \/ \E i \in IntakeIds : intakes[i].status \in Terminal
  /\ [](\A j \in pending_jobs :
          (/\ j.id = job_seq
           /\ snz.pc = "idle"
           /\ Owns(j.tg_id, j.intake_id)
           /\ intakes[j.intake_id].status = "sent"
           /\ intakes[j.intake_id].snoozed_until # NULL) =>
            intakes[j.intake_id].snoozed_until = j.run_at)
  /\ [][(snz.pc = "update" /\ snz'.pc = "insert" /\
          Owns(snz.tg_id, snz.intake_id)) =>
          intakes'[snz.intake_id].snoozed_until = now + snz.minutes * 60]_vars

\* C17 witness: two snoozes of the same occurrence gave two jobs, each was
\* attempted once, and the occurrence is still sent with the deadline of the
\* second snooze.
C17_Witness ==
  /\ Len(job_sends) = 2
  /\ job_sends[1] = 1
  /\ job_sends[2] = 1
  /\ pending_jobs = {}
  /\ \E i \in IntakeIds :
       /\ intakes[i].status = "sent"
       /\ intakes[i].snoozed_until = StartTime + 30 + 60

\* C18: an occurrence the tick inserts is planned at the slot's hour and
\* minute, second zero, of the local day of the clock reading that passed the
\* gate: planned <= reading < planned + 30 seconds.
C18_PlannedOnGateDay ==
  [][Len(intakes') > Len(intakes) =>
       LET row == intakes'[Len(intakes')]
           text == IF row.slot = 1 THEN tick.users[tick.ui].remind1
                   ELSE tick.users[tick.ui].remind2
           local == tick.now + TzOffset
       IN  /\ row.planned_at + TzOffset =
                (local \div 86400) * 86400 + Parsed(text).h * 3600 +
                Parsed(text).m * 60
           /\ row.planned_at <= tick.now
           /\ tick.now < row.planned_at + 30]_vars

\* C19: when the tick inserts an occurrence, the reminders_enabled flag of
\* the occurrence's user is true in the users table at that moment.
C19_EnabledAtCreation ==
  [][Len(intakes') > Len(intakes) =>
       users[intakes'[Len(intakes')].tg_id].reminders_enabled]_vars

\* C20: the slot iteration of a stored time that does not parse inserts
\* nothing, sends nothing and raises nothing, and the tick goes on to the
\* user's other slot, or after the second slot to the next user of its
\* snapshot.
C20_MalformedSkipped ==
  [][(/\ tick.pc = "slot"
      /\ tick' # tick
      /\ ~Parsed(IF tick.slot = 1 THEN tick.users[tick.ui].remind1
                 ELSE tick.users[tick.ui].remind2).ok) =>
       /\ intakes' = intakes
       /\ plan_sends' = plan_sends
       /\ ~tick'.raised
       /\ tick'.users = tick.users \/ tick'.pc = "idle"
       /\ tick.slot = 1 =>
            tick'.pc = "slot" /\ tick'.slot = 2 /\ tick'.ui = tick.ui
       /\ (tick.slot = 2 /\ tick.ui < Len(tick.users)) =>
            tick'.pc = "user" /\ tick'.ui = tick.ui + 1
       /\ (tick.slot = 2 /\ tick.ui = Len(tick.users)) =>
            tick'.pc = "idle"]_vars

\* C20 witness: in one tick the user whose slot 1 does not parse got the
\* occurrence of slot 2 and its delivery, and the tick has gone on to the
\* next user of its snapshot.
C20_Witness ==
  /\ tick.pc = "user"
  /\ tick.ui = 2
  /\ ~Parsed(tick.users[1].remind1).ok
  /\ \E i \in IntakeIds :
       /\ intakes[i].tg_id = tick.users[1].tg_id
       /\ intakes[i].slot = 2
       /\ plan_sends[i] = 1

====
